---- MODULE Spec2Model ----
(***************************************************************************)
(* Keypoint detector nodes of speedy-vision                                *)
(* (src/core/pipeline/nodes/keypoints/detectors/detector.js):              *)
(* the capacity / levels / scaleFactor properties, the sizing functions    *)
(* encoderLength / encoderCapacity, the init / release lifecycle with the  *)
(* wrap-S patch of the special texture, and the GPU passes submitted by    *)
(* _encodeKeypoints, _encodeKeypoints2 and _encodeZeroKeypoints.           *)
(***************************************************************************)
EXTENDS Integers, Sequences, FiniteSets, TLC

VARIABLES
    phase,          \* lifecycle of the node: "constructed", "initialized", "released"
    _capacity,      \* this._capacity
    _oldWrapS,      \* this._oldWrapS
    _levels,        \* this._levels      (multiscale detector)
    _scaleFactor,   \* this._scaleFactor (multiscale detector), a JS number
    _tex,           \* this._tex: the owned textures (0 = none)
    pool,           \* free textures of the texture pool
    wrapS,          \* TEXTURE_WRAP_S of every GL texture
    data,           \* pixels of every GL texture
    written,        \* the last property write: [prop, value]
    call,           \* the last encoder call: arguments, passes submitted, returned texture
    decoded,        \* history: what each encoder method last returned, decoded
    sizing,         \* arguments and results of the sizing functions
    wrapBeforeInit, \* history: wrap-S of the special texture right before init
    handedBack      \* history: wrap-S of the special texture when release gave it back

vars == << phase, _capacity, _oldWrapS, _levels, _scaleFactor, _tex, pool, wrapS,
           data, written, call, decoded, sizing, wrapBeforeInit, handedBack >>

lifeVars == << phase, _oldWrapS, _tex, pool, wrapS, wrapBeforeInit, handedBack >>
propVars == << _capacity, _levels, _scaleFactor, written >>
gpuVars == << data, call, decoded >>

(***************************************************************************)
(* Constants                                                               *)
(***************************************************************************)
ENCODER_PASSES == 4
LONG_SKIP_OFFSET_PASSES == 2
MAX_ENCODER_CAPACITY == 8192
MAX_CAPACITY == MAX_ENCODER_CAPACITY
DEFAULT_CAPACITY == 2048
NUMBER_OF_INTERNAL_TEXTURES == 5
MIN_KEYPOINT_SIZE == 8
MIN_ENCODER_LENGTH == 2

\* WebGL enumerants used by init / release
REPEAT == 10497
CLAMP_TO_EDGE == 33071
MIRRORED_REPEAT == 33648
WrapModes == { REPEAT, CLAMP_TO_EDGE, MIRRORED_REPEAT }

(***************************************************************************)
(* Bounds of the model                                                     *)
(***************************************************************************)
TexCount == 1           \* work textures requested by the subclass
Radius == 1             \* numbers written to a property lie this close to a boundary
MaxDescriptorSize == 5  \* descriptorSize ranges over 0..MaxDescriptorSize
MaxExtraSize == 4       \* extraSize ranges over 0..MaxExtraSize
MaxSizedCapacity == 40  \* capacities given to the sizing functions, from both ends
ImgW == 4               \* width of the corners image; its height is 2
MaxCorners == 2         \* candidates in a corners image
MaxSide == 6            \* width and height of the images given to _encodeKeypoints2

(***************************************************************************)
(* JavaScript numbers.  A number is NaN, an infinity, or a finite value    *)
(* sign * (hi * 2^16 + lo + f / 1000), f in 0..999; the two 16-bit limbs  *)
(* hi and lo carry the values at and beyond 2^31 and 2^32.                 *)
(***************************************************************************)
Limb == 2^16
HalfLimb == 2^15

NaN == [k |-> "nan", s |-> 1, hi |-> 0, lo |-> 0, f |-> 0]
Infinity(sign) == [k |-> "inf", s |-> sign, hi |-> 0, lo |-> 0, f |-> 0]
Finite(sign, hi, lo, f) == [k |-> "fin", s |-> sign, hi |-> hi, lo |-> lo, f |-> f]
Whole(n) == Finite(1, n \div Limb, n % Limb, 0)

IsZero(a) == a.k = "fin" /\ a.hi = 0 /\ a.lo = 0 /\ a.f = 0
SignOf(a) == IF IsZero(a) THEN 0 ELSE a.s
MagLess(a, b) ==
    \/ a.hi < b.hi
    \/ a.hi = b.hi /\ a.lo < b.lo
    \/ a.hi = b.hi /\ a.lo = b.lo /\ a.f < b.f

\* a < b in IEEE-754: false whenever an operand is NaN
NumLess(a, b) ==
    IF a.k = "nan" \/ b.k = "nan" THEN FALSE
    ELSE IF a.k = "inf" THEN a.s = -1 /\ ~(b.k = "inf" /\ b.s = -1)
    ELSE IF b.k = "inf" THEN b.s = 1
    ELSE IF SignOf(a) # SignOf(b) THEN SignOf(a) < SignOf(b)
    ELSE IF SignOf(a) = 1 THEN MagLess(a, b)
    ELSE IF SignOf(a) = -1 THEN MagLess(b, a)
    ELSE FALSE

NumLeq(a, b) == a.k # "nan" /\ b.k # "nan" /\ ~NumLess(b, a)

\* Math.min / Math.max: NaN as soon as an argument is NaN
MathMin(a, b) == IF a.k = "nan" \/ b.k = "nan" THEN NaN ELSE IF NumLess(b, a) THEN b ELSE a
MathMax(a, b) == IF a.k = "nan" \/ b.k = "nan" THEN NaN ELSE IF NumLess(a, b) THEN b ELSE a

\* x | 0, i.e. ToInt32(x): NaN and the infinities give 0; a finite value is
\* truncated toward zero, reduced modulo 2^32 and read as a signed 32-bit integer
ToInt32(a) ==
    IF a.k # "fin" THEN 0
    ELSE LET h == a.hi % Limb
             l == a.lo
             \* the limbs of (-magnitude) mod 2^32
             nh == IF l = 0 THEN (Limb - h) % Limb ELSE Limb - 1 - h
             nl == IF l = 0 THEN 0 ELSE Limb - l
             uh == IF a.s = -1 THEN nh ELSE h
             ul == IF a.s = -1 THEN nl ELSE l
         IN  IF uh >= HalfLimb THEN (uh - Limb) * Limb + ul ELSE uh * Limb + ul

IntMin(a, b) == IF a < b THEN a ELSE b
IntMax(a, b) == IF a > b THEN a ELSE b

\* 1.4142135623730951, to the three decimals of the number representation
DEFAULT_SCALE_FACTOR == Finite(1, 0, 1, 414)

(***************************************************************************)
(* Sizing functions                                                        *)
(***************************************************************************)
\* Math.ceil(a / b) for a >= 0, b > 0
CeilDiv(a, b) == (a + b - 1) \div b

FloorDiv(a, b) == a \div b

\* Math.ceil(Math.sqrt(n)) for an integer n >= 0: the least l with l * l >= n
CeilSqrt(n) == CHOOSE l \in 0 .. n : l * l >= n /\ (l = 0 \/ (l - 1) * (l - 1) < n)

FloorSqrtLength(encoderCapacity_, descriptorSize, extraSize) ==
    LET pixelsPerKeypoint == CeilDiv(MIN_KEYPOINT_SIZE + descriptorSize + extraSize, 4)
        numberOfPixels == encoderCapacity_ * pixelsPerKeypoint
        c == CeilSqrt(numberOfPixels)
    IN  IntMax(MIN_ENCODER_LENGTH, IF c * c = numberOfPixels THEN c ELSE c - 1)

UnclampedLength(encoderCapacity_, descriptorSize, extraSize) ==
    LET pixelsPerKeypoint == CeilDiv(MIN_KEYPOINT_SIZE + descriptorSize + extraSize, 4)
        numberOfPixels == encoderCapacity_ * pixelsPerKeypoint
    IN  CeilSqrt(numberOfPixels)

encoderLength(encoderCapacity_, descriptorSize, extraSize) ==
    LET pixelsPerKeypoint == CeilDiv(MIN_KEYPOINT_SIZE + descriptorSize + extraSize, 4)
        numberOfPixels == encoderCapacity_ * pixelsPerKeypoint
    IN  IntMax(MIN_ENCODER_LENGTH, CeilSqrt(numberOfPixels))

encoderCapacity(descriptorSize, extraSize, encoderLength_) ==
    LET pixelsPerKeypoint == CeilDiv(MIN_KEYPOINT_SIZE + descriptorSize + extraSize, 4)
        numberOfPixels == encoderLength_ * encoderLength_
    IN  FloorDiv(numberOfPixels, pixelsPerKeypoint)

DescriptorSizes == 0 .. MaxDescriptorSize
ExtraSizes == 0 .. MaxExtraSize
SizedCapacities ==
    (0 .. MaxSizedCapacity) \cup ((MAX_CAPACITY - MaxSizedCapacity) .. MAX_CAPACITY)

\* encoderLength(capacity, descriptorSize, extraSize) is called
ComputeEncoderLength ==
    /\ sizing.step = "arguments"
    /\ sizing' = [sizing EXCEPT !.step = "length", !.length =
                     encoderLength(sizing.capacity, sizing.descriptorSize, sizing.extraSize)]
    /\ UNCHANGED << lifeVars, propVars, gpuVars >>

\* encoderCapacity(descriptorSize, extraSize, length) is called on that length
ComputeEncoderCapacity ==
    /\ sizing.step = "length"
    /\ sizing' = [sizing EXCEPT !.step = "capacity", !.back =
                     encoderCapacity(sizing.descriptorSize, sizing.extraSize, sizing.length)]
    /\ UNCHANGED << lifeVars, propVars, gpuVars >>

(***************************************************************************)
(* Properties: capacity, levels, scaleFactor                               *)
(***************************************************************************)
HiLimbs == { 0, HalfLimb, Limb }
LoLimbs == (0 .. Radius + 1)
           \cup ((MAX_CAPACITY - Radius) .. (MAX_CAPACITY + Radius))
           \cup ((Limb - 1 - Radius) .. (Limb - 1))

\* the numbers a caller writes: around 0, 1, 2, MAX_CAPACITY, 2^31 and 2^32,
\* of either sign, whole or with a fraction, and the three non-finite numbers
PropertyInputs ==
    { NaN, Infinity(1), Infinity(-1) }
    \cup { Finite(s, hi, lo, f) : s \in {1, -1}, hi \in HiLimbs, lo \in LoLimbs, f \in {0, 500} }

\* the small whole numbers among them
SmallInputs == { Whole(n) : n \in 0 .. Radius + 1 }

\* set capacity(capacity)
SetCapacity(capacity) ==
    /\ _capacity' = IntMin(IntMax(0, ToInt32(capacity)), MAX_CAPACITY)
    /\ written' = [prop |-> "capacity", value |-> capacity]
    /\ UNCHANGED << _levels, _scaleFactor, lifeVars, gpuVars, sizing >>

\* set levels(levels)
SetLevels(levels) ==
    /\ _levels' = IntMax(1, ToInt32(levels))
    /\ written' = [prop |-> "levels", value |-> levels]
    /\ UNCHANGED << _capacity, _scaleFactor, lifeVars, gpuVars, sizing >>

\* set scaleFactor(scaleFactor); the unary plus leaves a number as it is
SetScaleFactor(scaleFactor) ==
    /\ _scaleFactor' = MathMax(Whole(1), MathMin(scaleFactor, Whole(2)))
    /\ written' = [prop |-> "scaleFactor", value |-> scaleFactor]
    /\ UNCHANGED << _capacity, _levels, lifeVars, gpuVars, sizing >>

(***************************************************************************)
(* Textures, the pool, and the lifecycle of the node                       *)
(***************************************************************************)
NoTexture == 0
NumOwned == TexCount + NUMBER_OF_INTERNAL_TEXTURES
\* the last texture belongs to the upstream node and never enters the pool
Upstream == NumOwned + 1
Textures == 1 .. Upstream

Blank == [kind |-> "blank", w |-> 0, h |-> 0, px |-> << >>]
NoCall == [method |-> "none"]
Methods == { "_encodeKeypoints", "_encodeKeypoints2", "_encodeZeroKeypoints" }
NotCalled == [called |-> FALSE]
NoWrite == [prop |-> "none", value |-> NaN]
Idle == [step |-> "idle", capacity |-> 0, descriptorSize |-> 0, extraSize |-> 0,
         length |-> 0, back |-> 0]

\* SpeedyPipelineNode.init: the owned textures are taken from the pool
AllocatedTextures == [i \in 1 .. NumOwned |-> i]

SetupFirstInternalTexture(tex, ws, param) ==
    LET texture == tex[Len(tex) - NUMBER_OF_INTERNAL_TEXTURES + 1]
        oldval == ws[texture]
    IN  [oldval |-> oldval, wrapS |-> [ws EXCEPT ![texture] = param]]

SetupSpecialTextureReturnsNew(tex, ws, param) ==
    [oldval |-> param, wrapS |-> [ws EXCEPT ![tex[Len(tex)]] = param]]

\* _setupSpecialTexture(gl.TEXTURE_WRAP_S, param) on the textures tex
SetupSpecialTexture(tex, ws, param) ==
    LET texture == tex[Len(tex)]
        oldval == ws[texture]
    IN  [oldval |-> oldval, wrapS |-> [ws EXCEPT ![texture] = param]]

\* new SpeedyPipelineNodeMultiscaleKeypointDetector(name, TexCount)
Constructed ==
    /\ phase = "constructed"
    /\ _capacity = DEFAULT_CAPACITY
    /\ _oldWrapS = 0
    /\ _levels = 1
    /\ _scaleFactor = DEFAULT_SCALE_FACTOR
    /\ _tex = [i \in 1 .. NumOwned |-> NoTexture]
    /\ pool = Textures \ { Upstream }
    /\ data = [t \in Textures |-> Blank]
    /\ written = NoWrite
    /\ call = NoCall
    /\ decoded = [m \in Methods |-> NotCalled]
    /\ wrapBeforeInit = 0
    /\ handedBack = 0

\* the textures of the pool carry one wrap mode, but for one that an earlier
\* borrower left with another
PoolWrapStates ==
    { [t \in Textures |-> IF t = d THEN m1 ELSE m0] :
        d \in Textures, m0 \in WrapModes, m1 \in WrapModes }

\* init(gpu)
InitNode ==
    /\ phase = "constructed"
    /\ LET tex == AllocatedTextures
           r == SetupSpecialTexture(tex, wrapS, REPEAT)
       IN  /\ _tex' = tex
           /\ pool' = pool \ { tex[i] : i \in 1 .. NumOwned }
           /\ wrapBeforeInit' = wrapS[tex[Len(tex)]]
           /\ _oldWrapS' = r.oldval
           /\ wrapS' = r.wrapS
    /\ phase' = "initialized"
    /\ UNCHANGED << handedBack, propVars, gpuVars, sizing >>

\* release(gpu): the parameter is restored, then the textures go back to the pool
Release ==
    /\ phase = "initialized"
    /\ LET r == SetupSpecialTexture(_tex, wrapS, _oldWrapS)
       IN  /\ wrapS' = r.wrapS
           /\ handedBack' = r.wrapS[_tex[Len(_tex)]]
           /\ pool' = pool \cup { _tex[i] : i \in 1 .. NumOwned }
           /\ _tex' = [i \in 1 .. NumOwned |-> NoTexture]
    /\ phase' = "released"
    /\ UNCHANGED << _oldWrapS, wrapBeforeInit, propVars, gpuVars, sizing >>

(***************************************************************************)
(* Pixels of a texture.  px maps the first cell of every run of equal      *)
(* cells to the value of the run; the last run extends to the end of the   *)
(* texture.  The cells of an image are its pixels in raster order, the     *)
(* cells of an encoded keypoint texture are its keypoint slots.            *)
(***************************************************************************)
SetMax(S) == CHOOSE x \in S : \A y \in S : y <= x
SetMin(S) == CHOOSE x \in S : \A y \in S : x <= y

Lookup(px, q) == px[SetMax({ b \in DOMAIN px : b <= q })]

Uniform(v) == 0 :> v

\* the function f, with the value of every argument computed
Tabulated(f) == f @@ << >>

\* the run map of the cells whose values raw gives at cell 0 and at a set of
\* cells that holds the first cell of every run
Runs(raw) ==
    LET starts == { b \in DOMAIN raw :
                      b = 0 \/ raw[b] # raw[SetMax({ c \in DOMAIN raw : c < b })] }
    IN  Tabulated([b \in starts |-> raw[b]])

\* total length, within the cells 0 .. n-1, of the runs that start in starts
RECURSIVE SumLengths(_, _, _)
SumLengths(px, n, starts) ==
    IF starts = {} THEN 0
    ELSE LET b == SetMin(starts)
             later == { c \in DOMAIN px : c > b }
             end == IF later = {} THEN n ELSE IntMin(n, SetMin(later))
         IN  (end - b) + SumLengths(px, n, starts \ {b})

\* texture.clear(v, v, v, v): every channel of every pixel is v (0 or 1)
ClearedTexel(v) == << v * 65535, v * 65535 >>
ClearedSlot(v) == [pos |-> ClearedTexel(v), score |-> v * 255]

\* the null keypoint: every byte of the slot is 0xFF
NullTexel == ClearedTexel(1)
NullSlot == ClearedSlot(1)

(***************************************************************************)
(* The corners image handed to the encoder                                 *)
(***************************************************************************)
ImageSize == [width |-> ImgW, height |-> 2]
Pixels == 0 .. (ImageSize.width * ImageSize.height - 1)
Masks == { m \in SUBSET Pixels : Cardinality(m) <= MaxCorners }
CornerScore == 255
MaskImage(mask) ==
    [kind |-> "image", w |-> ImageSize.width, h |-> ImageSize.height,
     px |-> Tabulated([p \in Pixels |-> IF p \in mask THEN CornerScore ELSE 0])]

\* a corners image of any size
SizedImage(width, height, mask) ==
    [kind |-> "image", w |-> width, h |-> height,
     px |-> Tabulated([p \in 0 .. (width * height - 1) |->
                          IF p \in mask THEN CornerScore ELSE 0])]

\* the candidates of a corners image
MaskOf(image) == { p \in 0 .. (image.w * image.h - 1) : image.px[p] > 0 }

(***************************************************************************)
(* Shaders of gpu.programs.keypoints and gpu.programs.utils                *)
(***************************************************************************)
MAX_SKIP_OFFSET == 7
LONG_SKIP_MAX_ITERATIONS == 6

\* utils.identity: color = currentPixel(image)
IdentityShader(image) == image

\* encodeKeypointSkipOffsets: for every pixel, whether it is a candidate and the
\* raster distance to the next candidate after it (or to the end of the image)
DistanceToNext(px, n, p) ==
    LET later == { q \in (p + 1) .. (n - 1) : px[q] > 0 }
    IN  IF later = {} THEN n - p ELSE SetMin(later) - p

SkipOffsetsShader(corners, imageSize) ==
    LET n == imageSize[1] * imageSize[2]
    IN  [kind |-> "offsets", w |-> imageSize[1], h |-> imageSize[2],
         px |-> Tabulated([p \in 0 .. (n - 1) |->
                   [corner |-> corners.px[p] > 0,
                    skip |-> IntMin(MAX_SKIP_OFFSET, DistanceToNext(corners.px, n, p))]])]

\* encodeKeypointLongSkipOffsets: a skip offset that lands on no candidate is
\* composed with the offset found there
RECURSIVE ExtendSkip(_, _, _, _, _)
ExtendSkip(px, n, p, s, i) ==
    IF i = 0 \/ p + s >= n \/ px[p + s].corner THEN s
    ELSE ExtendSkip(px, n, p, s + px[p + s].skip, i - 1)

LongSkipOffsetsShader(offsets, imageSize) ==
    LET n == imageSize[1] * imageSize[2]
    IN  [kind |-> "offsets", w |-> imageSize[1], h |-> imageSize[2],
         px |-> Tabulated([p \in 0 .. (n - 1) |->
                   [corner |-> offsets.px[p].corner,
                    skip |-> ExtendSkip(offsets.px, n, p, offsets.px[p].skip,
                                        LONG_SKIP_MAX_ITERATIONS)]])]

\* the first candidate at or after pixel p, following the skip offsets
RECURSIVE FirstFrom(_, _, _)
FirstFrom(px, n, p) ==
    IF p >= n THEN n
    ELSE IF px[p].corner THEN p
    ELSE FirstFrom(px, n, p + px[p].skip)

\* the q-th candidate counted from candidate p (or n when the chain ends)
RECURSIVE KthFrom(_, _, _, _)
KthFrom(px, n, p, q) ==
    IF p >= n THEN n
    ELSE IF q = 0 THEN p
    ELSE KthFrom(px, n, FirstFrom(px, n, p + px[p].skip), q - 1)

ResolveSlot(offsets, imageSize, q) ==
    LET n == imageSize[1] * imageSize[2]
        p == KthFrom(offsets.px, n, FirstFrom(offsets.px, n, 0), q)
    IN  IF p >= n THEN NullTexel ELSE << p % imageSize[1], p \div imageSize[1] >>

\* encodeKeypointPositions: pass passId of numPasses resolves its share of the
\* first capacity slots, copies the other ones from the previous pass and marks
\* the slots beyond capacity null
PositionsShader(offsets, imageSize, passId, numPasses, capacity, encodedKps, descriptorSize, extraSize, encoderLength_) ==
    LET n == imageSize[1] * imageSize[2]
        slotsPerPass == CeilDiv(capacity, numPasses)
        first == passId * slotsPerPass
        F(q) == IF q >= capacity THEN NullTexel
                ELSE IF q >= first /\ q < first + slotsPerPass
                     THEN ResolveSlot(offsets, imageSize, q)
                ELSE Lookup(encodedKps.px, q)
        \* beyond these cells the slots of a run share their value: the slots
        \* of this pass past the last candidate all resolve to null
        candidates == Cardinality({ p \in 0 .. (n - 1) : offsets.px[p].corner })
        B == { capacity, first, first + slotsPerPass }
             \cup (first .. (first + candidates))
             \cup DOMAIN encodedKps.px
    IN  [kind |-> "positions", w |-> encoderLength_, h |-> encoderLength_, px |-> Runs(Tabulated([q \in B \cup {0} |-> F(q)]))]

\* encodeKeypointProperties: a resolved slot gets the score sampled at its
\* position, a null slot the null keypoint
PropertiesShader(corners, encodedKps, descriptorSize, extraSize, encoderLength_) ==
    LET F(q) == LET t == Lookup(encodedKps.px, q)
                IN  IF t = NullTexel THEN NullSlot
                    ELSE [pos |-> t, score |-> corners.px[t[2] * corners.w + t[1]]]
    IN  [kind |-> "keypoints", w |-> encoderLength_, h |-> encoderLength_,
         px |-> Runs(Tabulated([q \in DOMAIN encodedKps.px \cup {0} |-> F(q)]))]

\* encodeNullKeypoints: every slot is the null keypoint
NullKeypointsShader(encoderLength_) ==
    [kind |-> "keypoints", w |-> encoderLength_, h |-> encoderLength_,
     px |-> Uniform(NullSlot)]

\* initSumTable, computeSumTable, initLookupOfLocations, computeLookupOfLocations:
\* the tables of the prefix-sum variant; nothing reads them back
TableShader(width, height) ==
    [kind |-> "table", w |-> width, h |-> height, px |-> Uniform(0)]

(***************************************************************************)
(* Programs: outputs(width, height, ...textures) configures the            *)
(* destinations, every invocation writes the next one in turn              *)
(***************************************************************************)
ProgramNames ==
    { "identity", "encodeKeypointSkipOffsets", "encodeKeypointLongSkipOffsets",
      "encodeKeypointPositions", "encodeKeypointProperties", "encodeNullKeypoints",
      "initLookupOfLocations", "computeLookupOfLocations", "initSumTable",
      "computeSumTable" }

Unconfigured == [w |-> 0, h |-> 0, out |-> << >>, idx |-> 0]

\* the state of the GPU as a method starts on the texture data d
Started(d) ==
    [data |-> d, passes |-> << >>, clears |-> << >>,
     prog |-> [p \in ProgramNames |-> Unconfigured], ret |-> NoTexture]

Outputs(x, p, width, height, textures) ==
    [x EXCEPT !.prog[p] = [w |-> width, h |-> height, out |-> textures, idx |-> 0]]

\* One invocation of program p: it reads the textures reads and draws content
\* to its current destination.  Drawing to a texture that is being read is a
\* feedback loop, whose result is undefined: the draw is rejected, or (draws)
\* it is made from the pixels as they were.
Invoke(x, p, reads, uniforms, content, draws) ==
    LET cfg == x.prog[p]
        dst == cfg.out[cfg.idx + 1]
    IN  [x EXCEPT
            !.data = IF dst \in reads /\ ~draws THEN @ ELSE [@ EXCEPT ![dst] = content],
            !.passes = Append(@, [program |-> p, reads |-> reads, write |-> dst,
                                  size |-> << cfg.w, cfg.h >>, uniforms |-> uniforms]),
            !.prog[p].idx = (cfg.idx + 1) % Len(cfg.out),
            !.ret = dst]

\* texture.clear(v, v, v, v)
Clear(x, texture, content) ==
    [x EXCEPT !.data[texture] = content, !.clears = Append(@, texture), !.ret = texture]

(***************************************************************************)
(* The encoders                                                            *)
(***************************************************************************)
\* element i of a JavaScript array
At(array, i) == array[i + 1]

FirstTextures(texs) == SubSeq(texs, 1, NUMBER_OF_INTERNAL_TEXTURES)

\* this._tex.slice(this._tex.length - NUMBER_OF_INTERNAL_TEXTURES)
InternalTextures(texs) == SubSeq(texs, Len(texs) - NUMBER_OF_INTERNAL_TEXTURES + 1, Len(texs))

\* tex.pop()
Popped(array) == SubSeq(array, 1, Len(array) - 1)
Last(array) == array[Len(array)]

SwappedPositionsOutputs(tex) == << At(tex, 3), At(tex, 2) >>

\* the destinations given to keypoints.encodeKeypointLongSkipOffsets.outputs
LongSkipOffsetsOutputs(tex) == << At(tex, 1), At(tex, 0) >>

\* the destinations given to keypoints.encodeKeypointPositions.outputs
PositionsOutputs(tex) == << At(tex, 2), At(tex, 3) >>

NoLongSkip(x, offsets, imageSize, i, draws) == [x EXCEPT !.ret = offsets]

\* for(let i = 0; i < LONG_SKIP_OFFSET_PASSES; i++) offsets = encodeKeypointLongSkipOffsets(...)
RECURSIVE LongSkipLoop(_, _, _, _, _)
LongSkipLoop(x, offsets, imageSize, i, draws) ==
    IF i >= LONG_SKIP_OFFSET_PASSES THEN [x EXCEPT !.ret = offsets]
    ELSE LET y == Invoke(x, "encodeKeypointLongSkipOffsets", { offsets }, << >>,
                         LongSkipOffsetsShader(x.data[offsets], imageSize), draws)
         IN  LongSkipLoop(y, y.ret, imageSize, i + 1, draws)

\* for(let j = 0; j < passes; j++) encodedKps = encodeKeypointPositions(...)
RECURSIVE PositionsLoopUpTo(_, _, _, _, _, _, _, _, _, _, _)
PositionsLoopUpTo(passes, x, offsets, imageSize, j, capacity, encodedKps, descriptorSize, extraSize, encoderLength_, draws) ==
    IF j >= passes THEN [x EXCEPT !.ret = encodedKps]
    ELSE LET y == Invoke(x, "encodeKeypointPositions", { offsets, encodedKps },
                         << j, ENCODER_PASSES, capacity >>,
                         PositionsShader(x.data[offsets], imageSize, j, ENCODER_PASSES,
                                         capacity, x.data[encodedKps], descriptorSize,
                                         extraSize, encoderLength_),
                         draws)
         IN  PositionsLoopUpTo(passes, y, offsets, imageSize, j + 1, capacity, y.ret,
                               descriptorSize, extraSize, encoderLength_, draws)

OnePassShort(x, offsets, imageSize, capacity, encodedKps, descriptorSize, extraSize, encoderLength_, draws) ==
    PositionsLoopUpTo(ENCODER_PASSES - 1, x, offsets, imageSize, 0, capacity, encodedKps,
                      descriptorSize, extraSize, encoderLength_, draws)

PositionsLoop(x, offsets, imageSize, capacity, encodedKps, descriptorSize, extraSize, encoderLength_, draws) ==
    PositionsLoopUpTo(ENCODER_PASSES, x, offsets, imageSize, 0, capacity, encodedKps,
                      descriptorSize, extraSize, encoderLength_, draws)

\* _encodeKeypoints(gpu, corners, encodedKeypoints, descriptorSize, extraSize)
\* on the textures texs of a node of that capacity
EncodeKeypointsRun(d, texs, capacity, corners, encodedKeypoints, descriptorSize, extraSize, draws) ==
    LET encoderLength_ == encoderLength(capacity, descriptorSize, extraSize)
        width == d[corners].w
        height == d[corners].h
        imageSize == << width, height >>
        internal == InternalTextures(texs)
        specialTexture == Last(internal)
        tex == Popped(internal)
        \* prepare programs
        x1 == Outputs(Started(d), "encodeKeypointSkipOffsets", width, height,
                      << At(tex, 0) >>)
        x2 == Outputs(x1, "encodeKeypointLongSkipOffsets", width, height,
                      LongSkipOffsetsOutputs(tex))
        x3 == Outputs(x2, "encodeKeypointPositions", encoderLength_, encoderLength_,
                      PositionsOutputs(tex))
        x4 == Outputs(x3, "encodeKeypointProperties", encoderLength_, encoderLength_,
                      << encodedKeypoints >>)
        \* copy the input corners to the special texture
        x5 == Invoke(Outputs(x4, "identity", width, height, << specialTexture >>),
                     "identity", { corners }, << >>, IdentityShader(x4.data[corners]), draws)
        corners2 == x5.ret
        \* encode skip offsets
        x6 == Invoke(x5, "encodeKeypointSkipOffsets", { corners2 }, << >>,
                     SkipOffsetsShader(x5.data[corners2], imageSize), draws)
        x7 == LongSkipLoop(x6, x6.ret, imageSize, 0, draws)
        offsets == x7.ret
        \* encode keypoint positions
        x8 == Clear(x7, At(tex, 3),
                    [kind |-> "positions", w |-> x7.data[At(tex, 3)].w,
                     h |-> x7.data[At(tex, 3)].h, px |-> Uniform(ClearedTexel(0))])
        x9 == PositionsLoop(x8, offsets, imageSize, capacity, x8.ret, descriptorSize,
                            extraSize, encoderLength_, draws)
        encodedKps == x9.ret
        \* encode keypoint properties
    IN  Invoke(x9, "encodeKeypointProperties", { corners2, encodedKps }, << >>,
               PropertiesShader(x9.data[corners2], x9.data[encodedKps], descriptorSize,
                                extraSize, encoderLength_),
               draws)

\* Math.ceil(Math.log2(n)) for an integer n >= 1: the least e with 2^e >= n
RECURSIVE CeilLog2From(_, _)
CeilLog2From(n, e) == IF 2^e >= n THEN e ELSE CeilLog2From(n, e + 1)
FloorLog2(n) ==
    LET e == CeilLog2From(n, 0)
    IN  IF 2^e = n THEN e ELSE e - 1

CeilLog2(n) == CeilLog2From(n, 0)

\* for(let i = 0; i < npasses; i++) { computeSumTable; computeLookupOfLocations }
RECURSIVE SumTableLoop(_, _, _, _, _, _, _, _)
SumTableLoop(x, sumTable, lookupTable, i, npasses, stride, paddedHeight, draws) ==
    IF i >= npasses THEN [x EXCEPT !.ret = lookupTable]
    ELSE LET prevSumTable == sumTable
             blockSize == 2^i
             y == Invoke(x, "computeSumTable", { prevSumTable },
                         << blockSize, 2 * blockSize, stride >>,
                         TableShader(stride, paddedHeight), draws)
             z == Invoke(y, "computeLookupOfLocations", { lookupTable, y.ret, prevSumTable },
                         << blockSize, 2 * blockSize, stride >>,
                         TableShader(stride, paddedHeight), draws)
         IN  SumTableLoop(z, y.ret, z.ret, i + 1, npasses, stride, paddedHeight, draws)

\* _encodeKeypoints2(gpu, corners, encodedKeypoints, descriptorSize, extraSize)
EncodeKeypoints2Run(d, texs, capacity, corners, encodedKeypoints, descriptorSize, extraSize, draws) ==
    LET encoderLength_ == encoderLength(capacity, descriptorSize, extraSize)
        width == d[corners].w
        height == d[corners].h
        tex == InternalTextures(texs)
        \* pad textures to a power of two
        exp2 == CeilLog2(width * height)
        paddedWidth == 2^(exp2 \div 2)
        paddedHeight == 2^((exp2 \div 2) + (exp2 % 2))
        x1 == Outputs(Started(d), "initLookupOfLocations", paddedWidth, paddedHeight,
                      << At(tex, 1) >>)
        x2 == Outputs(x1, "computeLookupOfLocations", paddedWidth, paddedHeight,
                      << At(tex, 0), At(tex, 1) >>)
        x3 == Outputs(x2, "initSumTable", paddedWidth, paddedHeight, << At(tex, 3) >>)
        x4 == Outputs(x3, "computeSumTable", paddedWidth, paddedHeight,
                      << At(tex, 2), At(tex, 3) >>)
        \* compute lookup table
        stride == paddedWidth
        x5 == Invoke(x4, "initSumTable", { corners }, << stride >>,
                     TableShader(paddedWidth, paddedHeight), draws)
        x6 == Invoke(x5, "initLookupOfLocations", { corners }, << stride >>,
                     TableShader(paddedWidth, paddedHeight), draws)
        npasses == exp2
        x7 == SumTableLoop(x6, x5.ret, x6.ret, 0, npasses, stride, paddedHeight, draws)
        \* encode keypoints
    IN  Clear(x7, encodedKeypoints,
              [kind |-> "keypoints", w |-> encoderLength_, h |-> encoderLength_,
               px |-> Uniform(ClearedSlot(1))])

\* _encodeZeroKeypoints(gpu, encodedKeypoints, descriptorSize, extraSize)
EncodeZeroKeypointsRun(d, encodedKeypoints, descriptorSize, extraSize, draws) ==
    LET capacity == 0
        encoderLength_ == encoderLength(capacity, descriptorSize, extraSize)
        x1 == Outputs(Started(d), "encodeNullKeypoints", encoderLength_, encoderLength_,
                      << encodedKeypoints >>)
        x2 == Invoke(x1, "encodeNullKeypoints", { }, << >>,
                     NullKeypointsShader(encoderLength_), draws)
    IN  [x2 EXCEPT !.ret = encodedKeypoints]

\* what is kept of a call: its arguments, the passes it submitted, what it returned
CallRecord(method, corners, encodedKeypoints, descriptorSize, extraSize, x) ==
    [method |-> method, capacity |-> _capacity, corners |-> corners,
     mask |-> IF corners = NoTexture THEN {} ELSE MaskOf(data[corners]),
     encodedKeypoints |-> encodedKeypoints,
     descriptorSize |-> descriptorSize, extraSize |-> extraSize,
     passes |-> x.passes, clears |-> x.clears, ret |-> x.ret]

\* The decoder, given the returned texture and (descriptorSize, extraSize,
\* encoderLength): the side of the texture, its number of slots, and the bag of
\* the positions held by its slots that are not null
Decode(content, descriptorSize, extraSize) ==
    IF content.kind # "keypoints" THEN [kind |-> content.kind]
    ELSE LET n == encoderCapacity(descriptorSize, extraSize, content.w)
             starts == { b \in DOMAIN content.px : b < n /\ content.px[b].pos # NullTexel }
             coords == { content.px[b].pos : b \in starts }
         IN  [kind |-> content.kind, width |-> content.w, height |-> content.h,
              slots |-> n,
              nonNull |-> SumLengths(content.px, n, starts),
              coords |-> Tabulated([c \in coords |->
                            SumLengths(content.px, n,
                                       { b \in starts : content.px[b].pos = c })])]

Decoded(record, x) ==
    [called |-> TRUE, capacity |-> record.capacity, corners |-> record.corners,
     mask |-> record.mask, encodedKeypoints |-> record.encodedKeypoints,
     descriptorSize |-> record.descriptorSize, extraSize |-> record.extraSize,
     texture |-> Decode(x.data[x.ret], record.descriptorSize, record.extraSize)]

\* this._encodeKeypoints(gpu, corners, encodedKeypoints, descriptorSize, extraSize)
EncodeKeypoints(corners, encodedKeypoints, descriptorSize, extraSize, draws) ==
    /\ phase = "initialized"
    /\ data[corners].kind = "image"
    /\ LET x == EncodeKeypointsRun(data, _tex, _capacity, corners, encodedKeypoints,
                                   descriptorSize, extraSize, draws)
       IN  /\ data' = x.data
           /\ call' = CallRecord("_encodeKeypoints", corners, encodedKeypoints,
                                 descriptorSize, extraSize, x)
           /\ decoded' = [decoded EXCEPT !["_encodeKeypoints"] =
                             Decoded(CallRecord("_encodeKeypoints", corners, encodedKeypoints,
                                                descriptorSize, extraSize, x), x)]
    /\ UNCHANGED << lifeVars, propVars, sizing >>

\* this._encodeKeypoints2(gpu, corners, encodedKeypoints, descriptorSize, extraSize)
EncodeKeypoints2(corners, encodedKeypoints, descriptorSize, extraSize, draws) ==
    /\ phase = "initialized"
    /\ data[corners].kind = "image"
    /\ LET x == EncodeKeypoints2Run(data, _tex, _capacity, corners, encodedKeypoints,
                                    descriptorSize, extraSize, draws)
       IN  /\ data' = x.data
           /\ call' = CallRecord("_encodeKeypoints2", corners, encodedKeypoints,
                                 descriptorSize, extraSize, x)
           /\ decoded' = [decoded EXCEPT !["_encodeKeypoints2"] =
                             Decoded(CallRecord("_encodeKeypoints2", corners, encodedKeypoints,
                                                descriptorSize, extraSize, x), x)]
    /\ UNCHANGED << lifeVars, propVars, sizing >>

\* this._encodeZeroKeypoints(gpu, encodedKeypoints, descriptorSize, extraSize)
EncodeZeroKeypoints(encodedKeypoints, descriptorSize, extraSize, draws) ==
    /\ phase = "initialized"
    /\ LET x == EncodeZeroKeypointsRun(data, encodedKeypoints, descriptorSize, extraSize,
                                       draws)
       IN  /\ data' = x.data
           /\ call' = CallRecord("_encodeZeroKeypoints", NoTexture, encodedKeypoints,
                                 descriptorSize, extraSize, x)
           /\ decoded' = [decoded EXCEPT !["_encodeZeroKeypoints"] =
                             Decoded(CallRecord("_encodeZeroKeypoints", NoTexture, encodedKeypoints,
                                                descriptorSize, extraSize, x), x)]
    /\ UNCHANGED << lifeVars, propVars, sizing >>

(***************************************************************************)
(* Specifications                                                          *)
(***************************************************************************)
\* Lifecycle of a node on a pool whose textures earlier borrowers have used
Init ==
    /\ Constructed
    /\ wrapS \in PoolWrapStates
    /\ sizing = Idle

WriteCapacity == \E v \in SmallInputs \cup { Whole(MAX_CAPACITY) } : SetCapacity(v)

Next == InitNode \/ Release \/ WriteCapacity

Spec == Init /\ [][Next]_vars

\* Property writes on a constructed node
InitProps ==
    /\ Constructed
    /\ wrapS = [t \in Textures |-> CLAMP_TO_EDGE]
    /\ sizing = Idle

WriteAnyCapacity == \E v \in PropertyInputs : SetCapacity(v)
WriteAnyLevels == \E v \in PropertyInputs : SetLevels(v)
WriteAnyScaleFactor == \E v \in PropertyInputs : SetScaleFactor(v)

NextProps == WriteAnyCapacity \/ WriteAnyLevels \/ WriteAnyScaleFactor

SpecProps == InitProps /\ [][NextProps]_vars

\* The sizing functions on drawn arguments
InitSizing ==
    /\ Constructed
    /\ wrapS = [t \in Textures |-> CLAMP_TO_EDGE]
    /\ \E c \in SizedCapacities, ds \in DescriptorSizes, es \in ExtraSizes :
          sizing = [step |-> "arguments", capacity |-> c, descriptorSize |-> ds,
                    extraSize |-> es, length |-> 0, back |-> 0]

NextSizing == ComputeEncoderLength \/ ComputeEncoderCapacity

SpecSizing == InitSizing /\ [][NextSizing]_vars

\* The encoders of an initialized node on drawn arguments: the capacity was
\* written, the corners are in their texture, the call is about to be made
EncodeCapacities == (0 .. Radius + 1) \cup { DEFAULT_CAPACITY }
CornerTextures == { At(AllocatedTextures, 0), Last(AllocatedTextures) }
OutputTextures == { Upstream, At(AllocatedTextures, 0), At(InternalTextures(AllocatedTextures), 3) }

InitEncode ==
    /\ phase = "initialized"
    /\ \E c \in EncodeCapacities :
          /\ _capacity = c
          /\ written = IF c = DEFAULT_CAPACITY THEN NoWrite
                       ELSE [prop |-> "capacity", value |-> Whole(c)]
    /\ _levels = 1
    /\ _scaleFactor = DEFAULT_SCALE_FACTOR
    /\ _tex = AllocatedTextures
    /\ pool = { }
    /\ _oldWrapS = CLAMP_TO_EDGE
    /\ wrapBeforeInit = CLAMP_TO_EDGE
    /\ handedBack = 0
    /\ wrapS = [t \in Textures |-> IF t = Last(AllocatedTextures) THEN REPEAT
                                   ELSE CLAMP_TO_EDGE]
    /\ \E corners \in CornerTextures, mask \in Masks :
          /\ data = [t \in Textures |-> IF t = corners THEN MaskImage(mask) ELSE Blank]
          /\ \E encodedKeypoints \in OutputTextures,
                ds \in { 0, MaxDescriptorSize }, es \in { 0, MaxExtraSize } :
                call = [method |-> "pending", corners |-> corners,
                        encodedKeypoints |-> encodedKeypoints,
                        descriptorSize |-> ds, extraSize |-> es]
    /\ decoded = [m \in Methods |-> NotCalled]
    /\ sizing = Idle

Pending == call.method = "pending"

RunEncodeKeypoints ==
    /\ Pending
    /\ \E draws \in BOOLEAN :
          EncodeKeypoints(call.corners, call.encodedKeypoints, call.descriptorSize,
                          call.extraSize, draws)

RunEncodeKeypoints2 ==
    /\ Pending
    /\ \E draws \in BOOLEAN :
          EncodeKeypoints2(call.corners, call.encodedKeypoints, call.descriptorSize,
                           call.extraSize, draws)

RunEncodeZeroKeypoints ==
    /\ Pending
    /\ \E draws \in BOOLEAN :
          EncodeZeroKeypoints(call.encodedKeypoints, call.descriptorSize,
                              call.extraSize, draws)

NextEncode == RunEncodeKeypoints \/ RunEncodeKeypoints2 \/ RunEncodeZeroKeypoints

SpecEncode == InitEncode /\ [][NextEncode]_vars

\* The prefix-sum encoder of an initialized node on corners images of drawn
\* sizes, read from a work texture and encoded to a texture of the caller
Sides == 1 .. MaxSide

InitPadding ==
    /\ phase = "initialized"
    /\ \E c \in EncodeCapacities :
          /\ _capacity = c
          /\ written = IF c = DEFAULT_CAPACITY THEN NoWrite
                       ELSE [prop |-> "capacity", value |-> Whole(c)]
    /\ _levels = 1
    /\ _scaleFactor = DEFAULT_SCALE_FACTOR
    /\ _tex = AllocatedTextures
    /\ pool = { }
    /\ _oldWrapS = CLAMP_TO_EDGE
    /\ wrapBeforeInit = CLAMP_TO_EDGE
    /\ handedBack = 0
    /\ wrapS = [t \in Textures |-> IF t = Last(AllocatedTextures) THEN REPEAT
                                   ELSE CLAMP_TO_EDGE]
    /\ \E width \in Sides, height \in Sides, mask \in { { }, { 0 } } :
          data = [t \in Textures |-> IF t = At(AllocatedTextures, 0)
                                     THEN SizedImage(width, height, mask) ELSE Blank]
    /\ call = [method |-> "pending", corners |-> At(AllocatedTextures, 0),
               encodedKeypoints |-> Upstream, descriptorSize |-> 0, extraSize |-> 0]
    /\ decoded = [m \in Methods |-> NotCalled]
    /\ sizing = Idle

NextPadding == RunEncodeKeypoints2

SpecPadding == InitPadding /\ [][NextPadding]_vars

\* A node from construction to release: once initialized, the subclass draws
\* the corners it detected to its work texture and calls the encoders, any
\* number of times, encoding to a texture of the caller or to that work texture
NodeMasks == { { }, { 1, ImgW + 2 } }
NodeOutputs == { Upstream, At(AllocatedTextures, 0) }
UniformWrapStates == { [t \in Textures |-> m] : m \in WrapModes }

InitNodeLife ==
    /\ Constructed
    /\ wrapS \in UniformWrapStates
    /\ sizing = Idle

\* the subclass renders the corners of its input to its first work texture
DetectCorners ==
    /\ phase = "initialized"
    /\ \E mask \in NodeMasks :
          data' = [data EXCEPT ![At(_tex, 0)] = MaskImage(mask)]
    /\ UNCHANGED << call, decoded, lifeVars, propVars, sizing >>

CallEncodeKeypoints ==
    /\ phase = "initialized"
    /\ \E encodedKeypoints \in NodeOutputs, draws \in BOOLEAN :
          EncodeKeypoints(At(_tex, 0), encodedKeypoints, 0, 0, draws)

CallEncodeKeypoints2 ==
    /\ phase = "initialized"
    /\ \E encodedKeypoints \in NodeOutputs, draws \in BOOLEAN :
          EncodeKeypoints2(At(_tex, 0), encodedKeypoints, 0, 0, draws)

CallEncodeZeroKeypoints ==
    /\ phase = "initialized"
    /\ \E encodedKeypoints \in NodeOutputs, draws \in BOOLEAN :
          EncodeZeroKeypoints(encodedKeypoints, 0, 0, draws)

NextNodeLife ==
    \/ InitNode
    \/ DetectCorners
    \/ CallEncodeKeypoints
    \/ CallEncodeKeypoints2
    \/ CallEncodeZeroKeypoints
    \/ Release

SpecNodeLife == InitNodeLife /\ [][NextNodeLife]_vars

(***************************************************************************)
(* Claims                                                                  *)
(***************************************************************************)
Range(array) == { array[i] : i \in DOMAIN array }

\* the corners input and the encodedKeypoints output of the call r are not
\* among the five internal textures of the node
Legit(r) ==
    /\ r.corners \notin Range(InternalTextures(_tex))
    /\ r.encodedKeypoints \notin Range(InternalTextures(_tex))

\* the positions <<x, y>> of the candidates of a mask
Positions(mask) == { << p % ImageSize.width, p \div ImageSize.width >> : p \in mask }

\* C1: the texture returned by _encodeKeypoints for a mask of k candidates and
\* a capacity c holds min(k, c) slots that are not null, each one a candidate
\* of its own; all its other slots are null
C1_CapacityMonotonicity ==
    LET r == decoded["_encodeKeypoints"]
    IN  (r.called /\ Legit(r)) =>
            /\ r.texture.kind = "keypoints"
            /\ r.texture.slots >= r.capacity
            /\ r.texture.nonNull = IntMin(Cardinality(r.mask), r.capacity)
            /\ DOMAIN r.texture.coords \subseteq Positions(r.mask)
            /\ \A c \in DOMAIN r.texture.coords : r.texture.coords[c] = 1

C1_Witness ==
    LET r == decoded["_encodeKeypoints"]
    IN  /\ r.called /\ Legit(r)
        /\ r.capacity >= 1
        /\ Cardinality(r.mask) > r.capacity
        /\ r.texture.nonNull = r.capacity

\* C2: after capacity = v the getter returns 0 when v is negative, MAX_CAPACITY
\* when v is above MAX_CAPACITY and the integer part of v otherwise, so that
\* 0 <= capacity <= MAX_CAPACITY
C2_CapacityClamping ==
    /\ 0 <= _capacity /\ _capacity <= MAX_CAPACITY
    /\ (written.prop = "capacity" /\ written.value.k # "nan") =>
          LET v == written.value
          IN  IF NumLess(v, Whole(0)) THEN _capacity = 0
              ELSE IF NumLess(Whole(MAX_CAPACITY), v) THEN _capacity = MAX_CAPACITY
              ELSE _capacity = v.hi * Limb + v.lo

\* C3: encoderCapacity(descriptorSize, extraSize,
\* encoderLength(capacity, descriptorSize, extraSize)) >= capacity
C3_SizingInverseLaw ==
    sizing.step = "capacity" =>
        /\ sizing.length >= MIN_ENCODER_LENGTH
        /\ sizing.back >= sizing.capacity

C3_Witness ==
    /\ sizing.step = "capacity"
    /\ sizing.capacity = MAX_CAPACITY
    /\ sizing.descriptorSize = MaxDescriptorSize
    /\ sizing.back >= sizing.capacity

\* C4: when release hands the textures back to the pool, the wrap-S parameter of
\* the special texture is what it was right before init
C4_RestoreOnRelease ==
    /\ phase = "initialized" => wrapS[Last(_tex)] = REPEAT /\ _oldWrapS = wrapBeforeInit
    /\ phase = "released" =>
          /\ handedBack = wrapBeforeInit
          /\ wrapS[Last(AllocatedTextures)] = wrapBeforeInit

C4_Witness ==
    /\ phase = "released"
    /\ wrapBeforeInit = MIRRORED_REPEAT
    /\ handedBack = MIRRORED_REPEAT

\* a square texture of side >= MIN_ENCODER_LENGTH whose slots are all null
AllNull(texture) ==
    /\ texture.kind = "keypoints"
    /\ texture.width = texture.height
    /\ texture.width >= MIN_ENCODER_LENGTH
    /\ texture.nonNull = 0

\* C5: capacity 0 yields a square texture of side >= MIN_ENCODER_LENGTH whose
\* slots are all null, whatever descriptorSize, extraSize, the capacity of the
\* node (_encodeZeroKeypoints) and the mask (encoders of a node of capacity 0)
C5_ZeroCapacityDeterminism ==
    /\ decoded["_encodeZeroKeypoints"].called =>
          AllNull(decoded["_encodeZeroKeypoints"].texture)
    /\ LET r == decoded["_encodeKeypoints"]
       IN  (r.called /\ r.capacity = 0 /\ Legit(r)) => AllNull(r.texture)
    /\ LET r == decoded["_encodeKeypoints2"]
       IN  (r.called /\ r.capacity = 0) => AllNull(r.texture)

C5_Witness ==
    LET r == decoded["_encodeZeroKeypoints"]
    IN  /\ r.called
        /\ r.capacity = DEFAULT_CAPACITY
        /\ r.texture.slots >= 1
        /\ AllNull(r.texture)

\* C6: after construction and after any writes, levels is an integer >= 1 and
\* 1.0 <= scaleFactor <= 2.0
C6_LevelsAndScaleFactorSaturate ==
    /\ _levels \in Int
    /\ _levels >= 1
    /\ NumLeq(Whole(1), _scaleFactor)
    /\ NumLeq(_scaleFactor, Whole(2))

\* C7: on the same mask, capacity, descriptorSize and extraSize,
\* _encodeKeypoints2 returns a square texture of side encoderLength that decodes
\* to the same bag of coordinates as the texture _encodeKeypoints returns
C7_AlgorithmEquivalence ==
    [][ (call'.method = "_encodeKeypoints2" /\ Legit(call)) =>
            LET x == EncodeKeypointsRun(data, _tex, _capacity, call.corners,
                                        call.encodedKeypoints, call.descriptorSize,
                                        call.extraSize, TRUE)
                skipOffset == Decode(x.data[x.ret], call.descriptorSize, call.extraSize)
                prefixSum == decoded'["_encodeKeypoints2"].texture
            IN  /\ prefixSum.kind = "keypoints"
                /\ prefixSum.width = skipOffset.width
                /\ prefixSum.height = skipOffset.height
                /\ prefixSum.coords = skipOffset.coords ]_vars

\* C8: with a corners input and an encodedKeypoints output that are not internal
\* textures, no pass of _encodeKeypoints writes a texture that it reads
C8_NoFeedbackLoop ==
    (call.method = "_encodeKeypoints" /\ Legit(call)) =>
        \A i \in DOMAIN call.passes :
            /\ call.passes[i].write \in Textures
            /\ call.passes[i].write \notin call.passes[i].reads

C8_Witness ==
    /\ call.method = "_encodeKeypoints"
    /\ Legit(call)
    /\ call.encodedKeypoints = call.corners
    /\ Len(call.passes) = 3 + LONG_SKIP_OFFSET_PASSES + ENCODER_PASSES

\* C9: _encodeKeypoints submits an identity copy of the corners, a skip-offset
\* pass, LONG_SKIP_OFFSET_PASSES long-skip passes, ENCODER_PASSES position
\* passes with indices 0, 1, 2, 3 and a property pass, each one reading what the
\* one before it wrote (the first position pass a cleared texture), and returns
\* what the property pass wrote
C9_FixedPassOrder ==
    call.method = "_encodeKeypoints" =>
        LET ps == call.passes
            firstPosition == 2 + LONG_SKIP_OFFSET_PASSES + 1
            properties == firstPosition + ENCODER_PASSES
        IN  /\ Len(ps) = properties
            /\ ps[1].program = "identity" /\ ps[1].reads = { call.corners }
            /\ ps[2].program = "encodeKeypointSkipOffsets"
            /\ ps[2].reads = { ps[1].write }
            /\ \A i \in 3 .. (firstPosition - 1) :
                  /\ ps[i].program = "encodeKeypointLongSkipOffsets"
                  /\ ps[i].reads = { ps[i - 1].write }
            /\ Len(call.clears) = 1
            /\ \A j \in 0 .. (ENCODER_PASSES - 1) :
                  /\ ps[firstPosition + j].program = "encodeKeypointPositions"
                  /\ ps[firstPosition + j].uniforms = << j, ENCODER_PASSES, call.capacity >>
                  /\ ps[firstPosition + j].reads =
                        { ps[firstPosition - 1].write,
                          IF j = 0 THEN call.clears[1] ELSE ps[firstPosition + j - 1].write }
            /\ ps[properties].program = "encodeKeypointProperties"
            /\ ps[properties].reads = { ps[1].write, ps[properties - 1].write }
            /\ call.ret = ps[properties].write
            /\ call.ret = call.encodedKeypoints

C9_Witness ==
    /\ call.method = "_encodeKeypoints"
    /\ call.capacity = DEFAULT_CAPACITY
    /\ Cardinality(call.mask) = MaxCorners
    /\ Len(call.passes) = 3 + LONG_SKIP_OFFSET_PASSES + ENCODER_PASSES
    /\ call.passes[Len(call.passes)].program = "encodeKeypointProperties"

\* C10: a run of the skip-offset encoder on a node of capacity 0 submits only the
\* null-keypoint write of an encoderLength x encoderLength texture
C10_ZeroCapacityShortcut ==
    (call.method \in { "_encodeKeypoints", "_encodeZeroKeypoints" } /\ call.capacity = 0) =>
        LET side == encoderLength(0, call.descriptorSize, call.extraSize)
        IN  /\ Len(call.passes) = 1
            /\ call.passes[1].program = "encodeNullKeypoints"
            /\ call.passes[1].size = << side, side >>

IsPowerOfTwo(n) == \E e \in 0 .. n : 2^e = n

\* the passes of program p among the passes ps, in the order submitted
PassesOf(ps, p) == SelectSeq(ps, LAMBDA pass : pass.program = p)

\* C11: _encodeKeypoints2 on a width x height image works on paddedWidth x
\* paddedHeight textures, both powers of two with a product >= width * height,
\* and makes log2(paddedWidth * paddedHeight) doubling passes, pass i with
\* block size 2^i
C11_PaddedDimensions ==
    (call.method = "_encodeKeypoints2" /\ data[call.corners].kind = "image") =>
        LET image == data[call.corners]
            paddedWidth == call.passes[1].size[1]
            paddedHeight == call.passes[1].size[2]
            sums == PassesOf(call.passes, "computeSumTable")
            lookups == PassesOf(call.passes, "computeLookupOfLocations")
        IN  /\ \A i \in DOMAIN call.passes :
                  call.passes[i].size = << paddedWidth, paddedHeight >>
            /\ IsPowerOfTwo(paddedWidth)
            /\ IsPowerOfTwo(paddedHeight)
            /\ paddedWidth * paddedHeight >= image.w * image.h
            /\ 2^Len(sums) = paddedWidth * paddedHeight
            /\ Len(lookups) = Len(sums)
            /\ Len(call.passes) = 2 + 2 * Len(sums)
            /\ \A i \in 0 .. (Len(sums) - 1) :
                  /\ sums[i + 1].uniforms = << 2^i, 2 * 2^i, paddedWidth >>
                  /\ lookups[i + 1].uniforms = << 2^i, 2 * 2^i, paddedWidth >>

C11_Witness ==
    /\ call.method = "_encodeKeypoints2"
    /\ data[call.corners].kind = "image"
    /\ data[call.corners].w = 3
    /\ data[call.corners].h = MaxSide
    /\ call.passes[1].size[1] < call.passes[1].size[2]
    /\ Len(PassesOf(call.passes, "computeSumTable")) >= 5

\* the subclass work textures and the internal textures, by their place among
\* the textures that init takes from the pool
WorkTextures == { AllocatedTextures[i] : i \in 1 .. TexCount }
LastFive == { AllocatedTextures[i] : i \in (TexCount + 1) .. (TexCount + NUMBER_OF_INTERNAL_TEXTURES) }

\* the textures that the passes and the clears of the last encoder call wrote
Destinations == { call.passes[i].write : i \in DOMAIN call.passes } \cup Range(call.clears)

\* C12: the node owns texCount + NUMBER_OF_INTERNAL_TEXTURES textures; encoder
\* calls leave that array as init filled it, and write only the last five
\* textures and the output texture of the caller, never a work texture
\* (which is not that output)
C12_OwnedTexturesUnchanged ==
    /\ Len(_tex) = TexCount + NUMBER_OF_INTERNAL_TEXTURES
    /\ phase = "initialized" => _tex = AllocatedTextures
    /\ call.method \in Methods =>
          /\ Destinations \subseteq LastFive \cup { call.encodedKeypoints }
          /\ Destinations \cap (WorkTextures \ { call.encodedKeypoints }) = { }

C12_Witness ==
    /\ phase = "initialized"
    /\ _tex = AllocatedTextures
    /\ decoded["_encodeKeypoints"].called
    /\ decoded["_encodeKeypoints2"].called
    /\ decoded["_encodeZeroKeypoints"].called
    /\ call.method = "_encodeKeypoints"
    /\ LastFive \subseteq Destinations \cup { _tex[Len(_tex)] }
    /\ data[At(_tex, 0)].kind = "image"

\* C13: between init and release the last owned texture has wrap-S = REPEAT,
\* it is the destination of the identity copy of the corners and what the
\* skip-offset pass of _encodeKeypoints reads, and every other texture keeps
\* the wrap-S that the textures of the pool had before init
C13_SpecialTextureIsTheCopy ==
    phase = "initialized" =>
        LET special == _tex[TexCount + NUMBER_OF_INTERNAL_TEXTURES]
        IN  /\ wrapS[special] = REPEAT
            /\ \A t \in Textures \ { special } : wrapS[t] = wrapBeforeInit
            /\ call.method = "_encodeKeypoints" =>
                  /\ call.passes[1].program = "identity"
                  /\ call.passes[1].reads = { call.corners }
                  /\ call.passes[1].write = special
                  /\ call.passes[2].program = "encodeKeypointSkipOffsets"
                  /\ call.passes[2].reads = { special }

C13_Witness ==
    /\ phase = "initialized"
    /\ call.method = "_encodeKeypoints"
    /\ wrapBeforeInit = CLAMP_TO_EDGE
    /\ wrapS[_tex[TexCount + NUMBER_OF_INTERNAL_TEXTURES]] = REPEAT
    /\ call.passes[2].reads = { _tex[TexCount + NUMBER_OF_INTERNAL_TEXTURES] }
    /\ decoded["_encodeKeypoints2"].called

====
